---------------------------- MODULE Spec2Model ----------------------------
(***************************************************************************)
(* Model of main.py of subreddit-data-downloader: the comment grouper      *)
(* (process_comments_in_chunks, a generator), the post/comment joiner      *)
(* (match_posts_with_top_comments), the directory dispatch and cleanup     *)
(* (process_files_in_directory) and the per-subreddit loop of main.        *)
(*                                                                         *)
(* Strings are sequences of tokens, so that startswith, endswith, "in"     *)
(* (substring), replace and split are computed and not assumed.  A JSON    *)
(* value is a tagged record; Absent stands for a key the object lacks.     *)
(***************************************************************************)
EXTENDS Integers, Sequences, FiniteSets, TLC

VARIABLES
    dir,          \* the working directory: file name -> content
    batch_size,   \* process_comments_in_chunks: batch_size
    gbound,       \* process_files_in_directory: comments_generator is bound
    gpath,        \* generator: comments_filepath
    gpc,          \* generator: where it is suspended
    gi,           \* generator: lines of the comments file read so far
    gbuckets,     \* generator: comments_by_post (insertion-ordered dict)
    gkey,         \* generator: link_id of the batch yielded at line 48
    gf,           \* generator: items of the final loop (line 52) visited
    gout,         \* the value just yielded, not yet taken by the consumer
    yielded,      \* history: every (link_id, comments) the generator yielded
    jpc,          \* joiner: where match_posts_with_top_comments is
    ppath,        \* joiner: posts_filepath
    label,        \* joiner: subreddit_name
    min_score,    \* joiner: min_score
    index,        \* joiner: comments_by_post (insertion-ordered dict)
    pi,           \* joiner: lines of the posts file read so far
    rows,         \* the sink: data rows written by writer.writerow
    mpc,          \* main / process_files_in_directory: program position
    headers,      \* the sink: number of header rows written
    subreddits,   \* main: the subreddits still to process
    listing       \* process_files_in_directory: names of os.listdir not yet visited

vars == <<dir, batch_size, gbound, gpath, gpc, gi, gbuckets, gkey, gf, gout,
          yielded, jpc, ppath, label, min_score, index, pi, rows, mpc,
          headers, subreddits, listing>>

gvars == <<gpath, gpc, gi, gbuckets, gkey, gf, gout, yielded>>
jvars == <<jpc, ppath, label, min_score, index, pi>>
mvars == <<mpc, headers, subreddits, listing>>

-----------------------------------------------------------------------------
(* Bounds of the model. *)

MaxCommentLines == 3   \* lines of a comments file (grouper specification)
MaxBatch == 2          \* largest batch_size tried
MaxJoinComments == 3   \* lines of a comments file (joiner specification)
MaxPostLines == 1      \* lines of a posts file (joiner specification)
MaxSubreddits == 2     \* subreddits entered in one run
MaxRowComments == 2    \* lines of a comments file (specification of rows)
MaxRowPosts == 3       \* lines of a posts file (specification of rows)

-----------------------------------------------------------------------------
(* JSON values and Python's operations on them. *)

JStr(s) == [t |-> "str", s |-> s]
JInt(n) == [t |-> "int", n |-> n]
Null == [t |-> "null"]
Absent == [t |-> "absent"]

\* dict.get(key): None when the key is missing
Get(v) == IF v.t = "absent" THEN Null ELSE v

\* dict.get(key, default)
GetDefault(v, d) == IF v.t = "absent" THEN d ELSE v

\* truth value of a str, int or None
Truthy(v) ==
    \/ v.t = "str" /\ v.s # <<>>
    \/ v.t = "int" /\ v.n # 0

\* str.startswith(prefix), on token sequences
StartsWith(s, prefix) == Len(s) >= 1 /\ s[1] = prefix

\* str.endswith(suffix), on token sequences
EndsWith(s, suffix) == Len(s) >= 1 /\ s[Len(s)] = suffix

\* marker in s (substring test), on token sequences
Contains(s, marker) == \E i \in 1..Len(s) : s[i] = marker

DELETED == "[deleted]"
REMOVED == "[removed]"
T3 == "t3_"

-----------------------------------------------------------------------------
(* Insertion-ordered dictionaries (dict, defaultdict(list)): sequences of  *)
(* [k, v] items.                                                           *)

DHas(d, k) == \E i \in 1..Len(d) : d[i].k = k

\* defaultdict(list)[k] as a value: the empty list when k is missing
DGet(d, k) ==
    IF DHas(d, k) THEN d[CHOOSE i \in 1..Len(d) : d[i].k = k].v ELSE <<>>

\* d[k] = v: a new key goes last, an old key keeps its place
DPut(d, k, v) ==
    IF DHas(d, k)
    THEN [i \in 1..Len(d) |-> IF d[i].k = k THEN [k |-> k, v |-> v] ELSE d[i]]
    ELSE Append(d, [k |-> k, v |-> v])

-----------------------------------------------------------------------------
(* Lines of the input files. *)

BadLine == [kind |-> "bad"]        \* json.loads raises JSONDecodeError
NonObject == [kind |-> "nonobj"]   \* valid JSON that is no object (a list, a number)

CommentLine(link_id, parent_id, body, score) ==
    [kind |-> "obj",
     f |-> [link_id |-> link_id, parent_id |-> parent_id, body |-> body,
            score |-> score]]

PostLine(name, title, selftext, score) ==
    [kind |-> "obj",
     f |-> [name |-> name, title |-> title, selftext |-> selftext,
            score |-> score]]

RECURSIVE SeqsUpTo(_, _)
SeqsUpTo(S, n) ==
    IF n = 0 THEN {<<>>}
    ELSE LET shorter == SeqsUpTo(S, n - 1)
         IN  shorter \cup {Append(s, x) : s \in {t \in shorter : Len(t) = n - 1}, x \in S}

KA == JStr(<<"t3_", "a">>)
KB == JStr(<<"t3_", "b">>)
KC == JStr(<<"t3_", "c">>)
Hello == JStr(<<"hello">>)
World == JStr(<<"world">>)

-----------------------------------------------------------------------------
(* process_comments_in_chunks: the tests of one parsed line. *)

\* line 40: link_id and parent_id and parent_id.startswith("t3_")
DirectReply(f) ==
    /\ Truthy(Get(f.link_id))
    /\ Truthy(Get(f.parent_id))
    /\ Get(f.parent_id).t = "str"
    /\ StartsWith(Get(f.parent_id).s, T3)

\* lines 42 and 71: a text holding one of the two markers
Tombstone(s) == Contains(s, DELETED) \/ Contains(s, REMOVED)

\* (a slip: only the first marker is looked for)
KeepsBodyDeletedOnly(f) == ~Contains(Get(f.body).s, DELETED)

\* line 42, once line 40 has passed: the body is kept
KeepsBody(f) == ~Tombstone(Get(f.body).s)

\* lines 43-46: the dict appended to the bucket
StoredComment(f) ==
    [body |-> Get(f.body), score |-> GetDefault(f.score, JInt(0))]

\* the exceptions lines 38-49 let through (only JSONDecodeError is caught):
\* .get on a value that is no dict, .startswith on a parent_id that is no
\* str, "in" on a body that is None or a number
CommentLineRaises(line) ==
    \/ line.kind = "nonobj"
    \/ /\ line.kind = "obj"
       /\ Truthy(Get(line.f.link_id))
       /\ Truthy(Get(line.f.parent_id))
       /\ Get(line.f.parent_id).t # "str"
    \/ /\ line.kind = "obj"
       /\ DirectReply(line.f)
       /\ Get(line.f.body).t # "str"

\* (a slip: the bucket must exceed the threshold)
ReachesBatchAbove(bucket, b) == Len(bucket) > b

\* line 47: the threshold test
ReachesBatch(bucket, b) == Len(bucket) >= b

\* the consumer has asked for the next value and the generator is to run
Pulled == jpc = "drain" /\ gout = <<>>

-----------------------------------------------------------------------------
(* process_comments_in_chunks, a generator: it runs only between a next()  *)
(* of its consumer and its next yield, return or exception.                *)

\* lines 32-34, at the first next(): open the file, or report it missing
\* (line 55) and return
G_Start ==
    /\ Pulled
    /\ gpc = "created"
    /\ gpc' = IF gpath \in DOMAIN dir THEN "reading" ELSE "done"
    /\ gi' = 0
    /\ gbuckets' = <<>>
    /\ UNCHANGED <<dir, batch_size, gbound, gpath, gkey, gf, gout, yielded,
                   jvars, rows, mvars>>

\* lines 35-51: one line of the file
G_Line ==
    /\ Pulled
    /\ gpc = "reading"
    /\ gi < Len(dir[gpath])
    /\ gi' = gi + 1
    /\ LET line == dir[gpath][gi + 1]
           k == Get(line.f.link_id)
           old == DGet(gbuckets, k)
           new == IF KeepsBody(line.f) THEN Append(old, StoredComment(line.f))
                  ELSE old
       IN  IF line.kind = "bad" THEN
               UNCHANGED <<gpc, gbuckets, gkey, gout, yielded, jpc>>
           ELSE IF CommentLineRaises(line) THEN
               \* the exception leaves the generator and the consumer's loop
               /\ gpc' = "raised"
               /\ jpc' = "raised"
               /\ UNCHANGED <<gbuckets, gkey, gout, yielded>>
           ELSE IF ~DirectReply(line.f) THEN
               UNCHANGED <<gpc, gbuckets, gkey, gout, yielded, jpc>>
           ELSE
               /\ gbuckets' = DPut(gbuckets, k, new)
               /\ IF ReachesBatch(new, batch_size)
                  THEN /\ gpc' = "flushed"
                       /\ gkey' = k
                       /\ gout' = <<[k |-> k, v |-> new]>>
                       /\ yielded' = Append(yielded, [k |-> k, v |-> new])
                  ELSE UNCHANGED <<gpc, gkey, gout, yielded>>
               /\ UNCHANGED jpc
    /\ UNCHANGED <<dir, batch_size, gbound, gpath, gf, ppath, label, min_score,
                   index, pi, rows, mvars>>

\* (a slip: line 49 is left out, the bucket stays full after its yield)
G_ResumeKeeps ==
    /\ Pulled
    /\ gpc = "flushed"
    /\ gpc' = "reading"
    /\ UNCHANGED <<dir, batch_size, gbound, gpath, gi, gbuckets, gkey, gf, gout,
                   yielded, jvars, rows, mvars>>

\* line 49, on the next() after the yield of line 48
G_Resume ==
    /\ Pulled
    /\ gpc = "flushed"
    /\ gbuckets' = DPut(gbuckets, gkey, <<>>)
    /\ gpc' = "reading"
    /\ UNCHANGED <<dir, batch_size, gbound, gpath, gi, gkey, gf, gout, yielded,
                   jvars, rows, mvars>>

\* the loop of line 35 ends with the file
G_EndOfFile ==
    /\ Pulled
    /\ gpc = "reading"
    /\ gi = Len(dir[gpath])
    /\ gpc' = "final"
    /\ gf' = 0
    /\ UNCHANGED <<dir, batch_size, gbound, gpath, gi, gbuckets, gkey, gout,
                   yielded, jvars, rows, mvars>>

\* (a slip: the test of line 53 is left out)
G_FinalItemAll ==
    /\ Pulled
    /\ gpc = "final"
    /\ gf < Len(gbuckets)
    /\ gf' = gf + 1
    /\ gout' = <<gbuckets[gf + 1]>>
    /\ yielded' = Append(yielded, gbuckets[gf + 1])
    /\ UNCHANGED <<dir, batch_size, gbound, gpath, gpc, gi, gbuckets, gkey,
                   jvars, rows, mvars>>

\* lines 52-54: one item of comments_by_post.items()
G_FinalItem ==
    /\ Pulled
    /\ gpc = "final"
    /\ gf < Len(gbuckets)
    /\ gf' = gf + 1
    /\ IF gbuckets[gf + 1].v # <<>>
       THEN /\ gout' = <<gbuckets[gf + 1]>>
            /\ yielded' = Append(yielded, gbuckets[gf + 1])
       ELSE UNCHANGED <<gout, yielded>>
    /\ UNCHANGED <<dir, batch_size, gbound, gpath, gpc, gi, gbuckets, gkey,
                   jvars, rows, mvars>>

\* the generator returns: the consumer's loop ends
G_Return ==
    /\ Pulled
    /\ gpc = "final"
    /\ gf = Len(gbuckets)
    /\ gpc' = "done"
    /\ UNCHANGED <<dir, batch_size, gbound, gpath, gi, gbuckets, gkey, gf, gout,
                   yielded, jvars, rows, mvars>>

-----------------------------------------------------------------------------
(* match_posts_with_top_comments: the tests of one parsed line. *)

\* line 72: max(comments, key=lambda c: c['score']) keeps the first of the
\* largest: a later element replaces the best only when strictly greater
\* (a slip: >= keeps the last of the largest)
RECURSIVE MaxFromLast(_, _, _)
MaxFromLast(comments, i, best) ==
    IF i > Len(comments) THEN best
    ELSE MaxFromLast(comments, i + 1,
                     IF comments[i].score.n >= best.score.n THEN comments[i] ELSE best)

RECURSIVE MaxFrom(_, _, _)
MaxFrom(comments, i, best) ==
    IF i > Len(comments) THEN best
    ELSE MaxFrom(comments, i + 1,
                 IF comments[i].score.n > best.score.n THEN comments[i] ELSE best)

TopComment(comments) == MaxFrom(comments, 2, comments[1])

\* (a slip: the threshold itself is refused)
ScoreAbove(f, ms) == GetDefault(f.score, JInt(0)).n > ms

\* line 71, first conjunct; the score defaults to 0
ScoreOk(f, ms) == GetDefault(f.score, JInt(0)).n >= ms

\* line 71, second conjunct
Indexed(f, idx) == DHas(idx, Get(f.name))

PostTitle(f) == GetDefault(f.title, JStr(<<>>))
PostContent(f) == GetDefault(f.selftext, JStr(<<>>))

\* the exceptions lines 68-81 let through (only JSONDecodeError is caught);
\* "and" evaluates left to right and stops at the first false conjunct
PostLineRaises(line, idx, ms) ==
    \/ line.kind = "nonobj"
    \/ /\ line.kind = "obj"
       /\ \/ GetDefault(line.f.score, JInt(0)).t # "int"
          \/ /\ ScoreOk(line.f, ms)
             /\ Indexed(line.f, idx)
             /\ \/ PostTitle(line.f).t # "str"
                \/ /\ ~Tombstone(PostTitle(line.f).s)
                   /\ \/ PostContent(line.f).t # "str"
                      \/ /\ ~Tombstone(PostContent(line.f).s)
                         /\ \E i \in 1..Len(DGet(idx, Get(line.f.name))) :
                              DGet(idx, Get(line.f.name))[i].score.t # "int"

\* line 71: the whole condition, for a line that does not raise
Accepts(f, idx, ms) ==
    /\ ScoreOk(f, ms)
    /\ Indexed(f, idx)
    /\ ~Tombstone(PostTitle(f).s)
    /\ ~Tombstone(PostContent(f).s)

\* (a slip: a comment of score 0 is let through)
GoodCommentFromZero(comments) ==
    /\ comments # <<>>
    /\ TopComment(comments).score.n >= 0

\* line 73: top_comment and top_comment["score"] >= 1
GoodComment(comments) ==
    /\ comments # <<>>
    /\ TopComment(comments).score.n >= 1

\* lines 74-81: the row written
Row(f, top, sub) ==
    [title |-> PostTitle(f), content |-> PostContent(f),
     post_score |-> Get(f.score), top_comment |-> top.body,
     comment_score |-> top.score, subreddit |-> sub]

-----------------------------------------------------------------------------
(* match_posts_with_top_comments *)

\* (a slip: a batch replaces what the index holds for its key)
J_DrainReplaces ==
    /\ jpc = "drain"
    /\ gout # <<>>
    /\ index' = DPut(index, gout[1].k, gout[1].v)
    /\ gout' = <<>>
    /\ UNCHANGED <<dir, batch_size, gbound, gpath, gpc, gi, gbuckets, gkey, gf,
                   yielded, jpc, ppath, label, min_score, pi, rows, mvars>>

\* lines 60-61: one (link_id, comments) of the generator, added to the index
J_Drain ==
    /\ jpc = "drain"
    /\ gout # <<>>
    /\ index' = DPut(index, gout[1].k, DGet(index, gout[1].k) \o gout[1].v)
    /\ gout' = <<>>
    /\ UNCHANGED <<dir, batch_size, gbound, gpath, gpc, gi, gbuckets, gkey, gf,
                   yielded, jpc, ppath, label, min_score, pi, rows, mvars>>

\* (a slip: the loop of line 60 is left before the generator is exhausted)
J_DrainedEarly ==
    /\ jpc = "drain"
    /\ gout = <<>>
    /\ jpc' = "open"
    /\ UNCHANGED <<dir, batch_size, gbound, gvars, ppath, label, min_score,
                   index, pi, rows, mvars>>

\* line 60: the generator is exhausted (next() raises StopIteration, also
\* for a generator that returned or raised before)
J_Drained ==
    /\ jpc = "drain"
    /\ gout = <<>>
    /\ gpc \in {"done", "raised"}
    /\ jpc' = "open"
    /\ UNCHANGED <<dir, batch_size, gbound, gvars, ppath, label, min_score,
                   index, pi, rows, mvars>>

\* lines 63-64 and 84-85: open the posts file, or report it missing and return
J_Open ==
    /\ jpc = "open"
    /\ jpc' = IF ppath \in DOMAIN dir THEN "posts" ELSE "done"
    /\ pi' = 0
    /\ UNCHANGED <<dir, batch_size, gbound, gvars, ppath, label, min_score,
                   index, rows, mvars>>

\* (a slip: the JSONDecodeError of line 67 is not caught)
J_PostBadRaises ==
    /\ jpc = "posts"
    /\ pi < Len(dir[ppath])
    /\ pi' = pi + 1
    /\ LET line == dir[ppath][pi + 1]
           comments == DGet(index, Get(line.f.name))
       IN  IF line.kind = "bad" \/ PostLineRaises(line, index, min_score) THEN
               /\ jpc' = "raised"
               /\ UNCHANGED rows
           ELSE IF Accepts(line.f, index, min_score) /\ GoodComment(comments) THEN
               /\ rows' = Append(rows, Row(line.f, TopComment(comments), label))
               /\ UNCHANGED jpc
           ELSE
               UNCHANGED <<jpc, rows>>
    /\ UNCHANGED <<dir, batch_size, gbound, gvars, ppath, label, min_score,
                   index, mvars>>

\* (a slip: a row the sink already holds is not written again)
J_PostOnce ==
    /\ jpc = "posts"
    /\ pi < Len(dir[ppath])
    /\ pi' = pi + 1
    /\ LET line == dir[ppath][pi + 1]
           comments == DGet(index, Get(line.f.name))
       IN  IF line.kind = "bad" THEN
               UNCHANGED <<jpc, rows>>
           ELSE IF PostLineRaises(line, index, min_score) THEN
               /\ jpc' = "raised"
               /\ UNCHANGED rows
           ELSE IF /\ Accepts(line.f, index, min_score)
                   /\ GoodComment(comments)
                   /\ \A i \in 1..Len(rows) :
                         rows[i] # Row(line.f, TopComment(comments), label)
                THEN
               /\ rows' = Append(rows, Row(line.f, TopComment(comments), label))
               /\ UNCHANGED jpc
           ELSE
               UNCHANGED <<jpc, rows>>
    /\ UNCHANGED <<dir, batch_size, gbound, gvars, ppath, label, min_score,
                   index, mvars>>

\* lines 65-83: one line of the posts file
J_Post ==
    /\ jpc = "posts"
    /\ pi < Len(dir[ppath])
    /\ pi' = pi + 1
    /\ LET line == dir[ppath][pi + 1]
           comments == DGet(index, Get(line.f.name))
       IN  IF line.kind = "bad" THEN
               UNCHANGED <<jpc, rows>>
           ELSE IF PostLineRaises(line, index, min_score) THEN
               /\ jpc' = "raised"
               /\ UNCHANGED rows
           ELSE IF Accepts(line.f, index, min_score) /\ GoodComment(comments) THEN
               /\ rows' = Append(rows, Row(line.f, TopComment(comments), label))
               /\ UNCHANGED jpc
           ELSE
               UNCHANGED <<jpc, rows>>
    /\ UNCHANGED <<dir, batch_size, gbound, gvars, ppath, label, min_score,
                   index, mvars>>

\* the loop of line 65 ends with the file: the function returns
J_Return ==
    /\ jpc = "posts"
    /\ pi = Len(dir[ppath])
    /\ jpc' = "done"
    /\ UNCHANGED <<dir, batch_size, gbound, gvars, ppath, label, min_score,
                   index, pi, rows, mvars>>

-----------------------------------------------------------------------------
(* The two functions as functions of their inputs: what a whole call       *)
(* yields or writes, computed line by line as the code does.               *)

\* the state of process_comments_in_chunks before its first line
GroupStart == [buckets |-> <<>>, out |-> <<>>, raised |-> FALSE]

\* lines 36-51 for one line, the reset of line 49 included; nothing more is
\* read once an exception has left the loop
GroupLine(st, line, b) ==
    IF st.raised \/ line.kind = "bad" THEN st
    ELSE IF CommentLineRaises(line) THEN [st EXCEPT !.raised = TRUE]
    ELSE IF ~DirectReply(line.f) THEN st
    ELSE LET k == Get(line.f.link_id)
             old == DGet(st.buckets, k)
             new == IF KeepsBody(line.f) THEN Append(old, StoredComment(line.f))
                    ELSE old
         IN  IF ReachesBatch(new, b)
             THEN [buckets |-> DPut(st.buckets, k, <<>>),
                   out |-> Append(st.out, [k |-> k, v |-> new]),
                   raised |-> FALSE]
             ELSE [buckets |-> DPut(st.buckets, k, new),
                   out |-> st.out,
                   raised |-> FALSE]

\* the loop of line 35 over the first n lines
RECURSIVE GroupLines(_, _, _)
GroupLines(lines, n, b) ==
    IF n = 0 THEN GroupStart
    ELSE GroupLine(GroupLines(lines, n - 1, b), lines[n], b)

\* lines 52-54: the non-empty buckets, in the order of the dict
GroupFinal(buckets) == SelectSeq(buckets, LAMBDA item : item.v # <<>>)

\* everything the generator yields over a file
GroupYields(lines, b) ==
    LET st == GroupLines(lines, Len(lines), b)
    IN  IF st.raised THEN st.out ELSE st.out \o GroupFinal(st.buckets)

\* lines 59-61 over the first n pairs of a sequence of batches
RECURSIVE DrainAll(_, _)
DrainAll(pairs, n) ==
    IF n = 0 THEN <<>>
    ELSE LET idx == DrainAll(pairs, n - 1)
         IN  DPut(idx, pairs[n].k, DGet(idx, pairs[n].k) \o pairs[n].v)

JoinStart == [rows |-> <<>>, raised |-> FALSE]

\* lines 67-83 for one line of the posts file
JoinLine(st, line, idx, ms, sub) ==
    IF st.raised \/ line.kind = "bad" THEN st
    ELSE IF PostLineRaises(line, idx, ms) THEN [st EXCEPT !.raised = TRUE]
    ELSE IF /\ Accepts(line.f, idx, ms)
            /\ GoodComment(DGet(idx, Get(line.f.name)))
         THEN [st EXCEPT !.rows =
                  Append(@, Row(line.f, TopComment(DGet(idx, Get(line.f.name))), sub))]
         ELSE st

\* the loop of line 65 over the first n lines
RECURSIVE JoinLines(_, _, _, _, _)
JoinLines(lines, n, idx, ms, sub) ==
    IF n = 0 THEN JoinStart
    ELSE JoinLine(JoinLines(lines, n - 1, idx, ms, sub), lines[n], idx, ms, sub)

\* the rows a call of match_posts_with_top_comments writes, given the lines
\* of the comments file its generator reads and the lines of the posts file
JoinRows(comments, posts, b, ms, sub) ==
    LET pairs == GroupYields(comments, b)
    IN  IF GroupLines(comments, Len(comments), b).raised THEN <<>>
        ELSE JoinLines(posts, Len(posts), DrainAll(pairs, Len(pairs)), ms, sub).rows

-----------------------------------------------------------------------------
(* The two functions called on their own: a generator made by              *)
(* process_comments_in_chunks(CommentsName, batch_size) is handed to        *)
(* match_posts_with_top_comments(PostsName, generator, "r1", writer,        *)
(* min_score), over every small comments file and posts file.              *)

CommentsName == <<"r1", "_comments">>
PostsName == <<"r1", "_submissions">>
OutputName == <<"merged_data", ".csv">>

NoFiles == [n \in {} |-> <<>>]

\* the comment lines tried by the grouper specification
GrouperLines ==
    { CommentLine(KA, KA, Hello, JInt(1)),
      CommentLine(KB, KB, World, Absent),
      CommentLine(KA, KA, JStr(<<DELETED>>), JInt(9)),
      CommentLine(KA, KA, JStr(<<"so", REMOVED, "it">>), JInt(1)),
      CommentLine(KA, JStr(<<"t1_", "c">>), JStr(<<"reply">>), JInt(1)),
      CommentLine(Absent, KA, JStr(<<"nolink">>), JInt(1)),
      CommentLine(KA, Null, JStr(<<"noparent">>), JInt(1)),
      CommentLine(KA, KA, Absent, JInt(1)),
      BadLine,
      NonObject }

\* a row written by an earlier call with the same writer
EarlierRow ==
    [title |-> JStr(<<"T0">>), content |-> JStr(<<"C0">>), post_score |-> JInt(5),
     top_comment |-> Hello, comment_score |-> JInt(4), subreddit |-> "r0"]

InitCall ==
    /\ gbound = TRUE
    /\ gpath = CommentsName
    /\ gpc = "created"
    /\ gi = 0
    /\ gbuckets = <<>>
    /\ gkey = Null
    /\ gf = 0
    /\ gout = <<>>
    /\ yielded = <<>>
    /\ jpc = "drain"
    /\ ppath = PostsName
    /\ label = "r1"
    /\ index = <<>>
    /\ pi = 0
    /\ rows = <<EarlierRow>>
    /\ mpc = "call"
    /\ headers = 1
    /\ subreddits = <<>>
    /\ listing = {}

InitGrouper ==
    /\ dir \in {NoFiles} \cup
               {CommentsName :> c : c \in SeqsUpTo(GrouperLines, MaxCommentLines)}
    /\ batch_size \in 1..MaxBatch
    /\ min_score = 0
    /\ InitCall

NextGrouper ==
    \/ G_Start
    \/ G_Line
    \/ G_Resume
    \/ G_EndOfFile
    \/ G_FinalItem
    \/ G_Return
    \/ J_Drain
    \/ J_Drained
    \/ J_Open

SpecGrouper == InitGrouper /\ [][NextGrouper]_vars

Title == JStr(<<"T">>)
Content == JStr(<<"C">>)

\* the comment lines tried by the joiner specification: all of one post,
\* two of them with the same score and different bodies, one marked
JoinComments ==
    { CommentLine(KA, KA, Hello, JInt(0)),
      CommentLine(KA, KA, Hello, JInt(2)),
      CommentLine(KA, KA, World, JInt(2)),
      CommentLine(KA, KA, JStr(<<DELETED>>), JInt(3)),
      CommentLine(KA, KA, World, Null) }

\* the post lines tried by the joiner specification
JoinPosts ==
    { PostLine(KA, Title, Content, JInt(1)),
      PostLine(KA, Title, Content, JInt(0)),
      PostLine(KB, Title, Content, JInt(1)),
      PostLine(KA, JStr(<<DELETED>>), Content, JInt(1)),
      PostLine(KA, Title, JStr(<<"was", REMOVED>>), JInt(1)),
      BadLine,
      NonObject }

MinScores == {0, 1}

InitJoin ==
    /\ dir \in { cf @@ pf :
                  cf \in {NoFiles} \cup
                         {CommentsName :> c : c \in SeqsUpTo(JoinComments, MaxJoinComments)},
                  pf \in {NoFiles} \cup
                         {PostsName :> p : p \in SeqsUpTo(JoinPosts, MaxPostLines)} }
    /\ batch_size = MaxBatch
    /\ min_score \in MinScores
    /\ InitCall

NextJoin ==
    \/ G_Start
    \/ G_Line
    \/ G_Resume
    \/ G_EndOfFile
    \/ G_FinalItem
    \/ G_Return
    \/ J_Drain
    \/ J_Drained
    \/ J_Open
    \/ J_Post
    \/ J_Return

SpecJoin == InitJoin /\ [][NextJoin]_vars

\* the comment lines and post lines tried by the specification of rows,
\* with posts files of several lines: two posts told apart by their titles,
\* each with one comment, and in either file a line that is no JSON and a
\* line that is JSON but no object
OtherTitle == JStr(<<"U">>)

RowComments ==
    { CommentLine(KA, KA, Hello, JInt(2)),
      CommentLine(KB, KB, World, JInt(1)),
      BadLine,
      NonObject }

RowPosts ==
    { PostLine(KA, Title, Content, JInt(1)),
      PostLine(KB, OtherTitle, Content, JInt(1)),
      BadLine,
      NonObject }

InitRows ==
    /\ dir \in { (CommentsName :> c) @@ (PostsName :> p) :
                  c \in SeqsUpTo(RowComments, MaxRowComments),
                  p \in SeqsUpTo(RowPosts, MaxRowPosts) }
    /\ batch_size \in 1..MaxBatch
    /\ min_score = 1
    /\ InitCall

SpecRows == InitRows /\ [][NextJoin]_vars

-----------------------------------------------------------------------------
(* main and process_files_in_directory.  The working directory and the     *)
(* output directory are the same directory (line 153).                     *)

CSV == ".csv"
ZST == ".zst"
COMMENTS == "_comments"
SUBMISSIONS == "_submissions"
DefaultBatch == 1000

\* lines 144-148: f"{subreddit_name}_submissions.zst", ..._comments.zst
SubmissionsZst(sub) == sub \o <<SUBMISSIONS, ZST>>
CommentsZst(sub) == sub \o <<COMMENTS, ZST>>

\* line 26: os.path.basename(zst_filepath).replace('.zst', '')
Decompressed(name) == SelectSeq(name, LAMBDA t : t # ZST)

\* line 115: filename.split('_')[0]; a token starting a new "_" part is
\* written with its underscore
FirstPart(name) == name[1]

\* the bytes of a .zst file, and what dctx.copy_stream gives back
Compressed(lines) == [zst |-> lines]
Decompress(content) == content.zst

\* (a slip: the test of line 119 without its "not")
KeepsFileInverted(name) == ~EndsWith(name, CSV)

\* line 119, negated: the file is left alone
KeepsFile(name) == EndsWith(name, CSV)

\* dir with one file written (created or overwritten)
WriteFile(d, name, content) ==
    [n \in DOMAIN d \cup {name} |-> IF n = name THEN content ELSE d[n]]

\* the subreddit of the current iteration of line 143
Current == subreddits[1]

\* the program has ended with an uncaught exception
Crashed == mpc = "raised" \/ jpc = "raised"

\* lines 130-134: the output file is created or truncated, the header written
M_OpenSink ==
    /\ mpc = "start"
    /\ dir' = WriteFile(dir, OutputName, <<>>)
    /\ headers' = headers + 1
    /\ rows' = <<>>
    /\ mpc' = "input"
    /\ UNCHANGED <<batch_size, gbound, gvars, jvars, subreddits, listing>>

\* lines 137-141: one answer that is a subreddit name
M_EnterSubreddit(sub) ==
    /\ mpc = "input"
    /\ subreddits' = Append(subreddits, sub)
    /\ UNCHANGED <<dir, batch_size, gbound, gvars, jvars, rows, mpc, headers,
                   listing>>

\* lines 139-143: the answer 'done'; the loop of line 143 starts, or ends at once
M_Done ==
    /\ mpc = "input"
    /\ mpc' = IF subreddits = <<>> THEN "end" ELSE "download_submissions"
    /\ UNCHANGED <<dir, batch_size, gbound, gvars, jvars, rows, headers,
                   subreddits, listing>>

\* lines 10-21 for line 147: status 200 writes the file, any other status
\* only prints
M_DownloadSubmissions(ok, lines) ==
    /\ mpc = "download_submissions"
    /\ dir' = IF ok THEN WriteFile(dir, SubmissionsZst(Current), Compressed(lines))
              ELSE dir
    /\ mpc' = "download_comments"
    /\ UNCHANGED <<batch_size, gbound, gvars, jvars, rows, headers, subreddits,
                   listing>>

\* lines 10-21 for line 148
M_DownloadComments(ok, lines) ==
    /\ mpc = "download_comments"
    /\ dir' = IF ok THEN WriteFile(dir, CommentsZst(Current), Compressed(lines))
              ELSE dir
    /\ mpc' = "decompress_submissions"
    /\ UNCHANGED <<batch_size, gbound, gvars, jvars, rows, headers, subreddits,
                   listing>>

\* lines 23-29 for line 150: open(zst_filepath, 'rb') raises
\* FileNotFoundError when the download did not write the file
M_DecompressSubmissions ==
    /\ mpc = "decompress_submissions"
    /\ IF SubmissionsZst(Current) \in DOMAIN dir
       THEN /\ dir' = WriteFile(dir, Decompressed(SubmissionsZst(Current)),
                                Decompress(dir[SubmissionsZst(Current)]))
            /\ mpc' = "decompress_comments"
       ELSE /\ mpc' = "raised"
            /\ UNCHANGED dir
    /\ UNCHANGED <<batch_size, gbound, gvars, jvars, rows, headers, subreddits,
                   listing>>

\* lines 23-29 for line 151
M_DecompressComments ==
    /\ mpc = "decompress_comments"
    /\ IF CommentsZst(Current) \in DOMAIN dir
       THEN /\ dir' = WriteFile(dir, Decompressed(CommentsZst(Current)),
                                Decompress(dir[CommentsZst(Current)]))
            /\ mpc' = "process"
       ELSE /\ mpc' = "raised"
            /\ UNCHANGED dir
    /\ UNCHANGED <<batch_size, gbound, gvars, jvars, rows, headers, subreddits,
                   listing>>

\* (a slip: the output file is opened again, header and all, for each subreddit)
P_ListReopens ==
    /\ mpc = "process"
    /\ listing' = DOMAIN dir
    /\ gbound' = FALSE
    /\ mpc' = "dispatch"
    /\ headers' = headers + 1
    /\ rows' = <<>>
    /\ UNCHANGED <<dir, batch_size, gvars, jvars, subreddits>>

\* lines 108-109: the call; comments_generator is a local not yet bound;
\* listing holds the names os.listdir returned that the loop has not visited
\* yet, in an order the directory decides
P_List ==
    /\ mpc = "process"
    /\ listing' = DOMAIN dir
    /\ gbound' = FALSE
    /\ mpc' = "dispatch"
    /\ UNCHANGED <<dir, batch_size, gvars, jvars, rows, headers, subreddits>>

\* lines 110-112: a "_comments" file makes a new generator (nothing of it runs)
P_Comments(filename) ==
    /\ mpc = "dispatch"
    /\ filename \in listing
    /\ EndsWith(filename, COMMENTS)
    /\ listing' = listing \ {filename}
    /\ gbound' = TRUE
    /\ gpath' = filename
    /\ batch_size' = DefaultBatch
    /\ gpc' = "created"
    /\ gi' = 0
    /\ gbuckets' = <<>>
    /\ gkey' = Null
    /\ gf' = 0
    /\ gout' = <<>>
    /\ yielded' = <<>>
    /\ UNCHANGED <<dir, jvars, rows, mpc, headers, subreddits>>

\* (a slip: the joiner goes on with the index of the call before)
P_SubmissionsKeepsIndex(filename) ==
    /\ mpc = "dispatch"
    /\ filename \in listing
    /\ ~EndsWith(filename, COMMENTS)
    /\ EndsWith(filename, SUBMISSIONS)
    /\ listing' = listing \ {filename}
    /\ IF gbound
       THEN /\ mpc' = "joining"
            /\ jpc' = "drain"
            /\ ppath' = filename
            /\ label' = FirstPart(filename)
            /\ pi' = 0
            /\ UNCHANGED index
       ELSE /\ mpc' = "raised"
            /\ UNCHANGED <<jpc, ppath, label, index, pi>>
    /\ UNCHANGED <<dir, batch_size, gbound, gvars, min_score, rows, headers,
                   subreddits>>

\* lines 113-116: a "_submissions" file calls the joiner with the generator;
\* reading the unbound local raises UnboundLocalError
P_Submissions(filename) ==
    /\ mpc = "dispatch"
    /\ filename \in listing
    /\ ~EndsWith(filename, COMMENTS)
    /\ EndsWith(filename, SUBMISSIONS)
    /\ listing' = listing \ {filename}
    /\ IF gbound
       THEN /\ mpc' = "joining"
            /\ jpc' = "drain"
            /\ ppath' = filename
            /\ label' = FirstPart(filename)
            /\ index' = <<>>
            /\ pi' = 0
       ELSE /\ mpc' = "raised"
            /\ UNCHANGED <<jpc, ppath, label, index, pi>>
    /\ UNCHANGED <<dir, batch_size, gbound, gvars, min_score, rows, headers,
                   subreddits>>

\* lines 110-113: any other name is passed over
P_Other(filename) ==
    /\ mpc = "dispatch"
    /\ filename \in listing
    /\ ~EndsWith(filename, COMMENTS)
    /\ ~EndsWith(filename, SUBMISSIONS)
    /\ listing' = listing \ {filename}
    /\ UNCHANGED <<dir, batch_size, gbound, gvars, jvars, rows, mpc, headers,
                   subreddits>>

\* line 116: match_posts_with_top_comments has returned
P_Joined ==
    /\ mpc = "joining"
    /\ jpc = "done"
    /\ mpc' = "dispatch"
    /\ UNCHANGED <<dir, batch_size, gbound, gvars, jvars, rows, headers,
                   subreddits, listing>>

\* lines 118-121, then line 143: every listed file the test of line 119 does
\* not spare is removed; the loop of main goes to its next subreddit or ends
P_Cleanup ==
    /\ mpc = "dispatch"
    /\ listing = {}
    /\ dir' = [n \in {m \in DOMAIN dir : KeepsFile(m)} |-> dir[n]]
    /\ subreddits' = Tail(subreddits)
    /\ mpc' = IF Tail(subreddits) = <<>> THEN "end" ELSE "download_submissions"
    /\ UNCHANGED <<batch_size, gbound, gvars, jvars, rows, headers, listing>>

\* the subreddit names entered, the archives served and the files found in
\* the output directory at the start
SubredditNames == {<<"r1">>, <<"ask", "_me">>}
NotesName == <<"notes", ".txt">>
OldTableName == <<"old", ".csv">>
LeftoverName == <<"r0", "_submissions">>

ServedComments ==
    { <<CommentLine(KA, KA, Hello, JInt(2)), CommentLine(KA, KA, World, JInt(1))>> }

ServedPosts ==
    { <<PostLine(KA, Title, Content, JInt(1))>> }

InitMain ==
    /\ dir \in { NoFiles,
                 [n \in {NotesName, OldTableName, OutputName} |-> <<>>],
                 LeftoverName :> <<PostLine(KA, Title, Content, JInt(1))>> }
    /\ batch_size = DefaultBatch
    /\ gbound = FALSE
    /\ gpath = CommentsName
    /\ gpc = "done"
    /\ gi = 0
    /\ gbuckets = <<>>
    /\ gkey = Null
    /\ gf = 0
    /\ gout = <<>>
    /\ yielded = <<>>
    /\ jpc = "idle"
    /\ ppath = PostsName
    /\ label = "r1"
    /\ min_score \in MinScores
    /\ index = <<>>
    /\ pi = 0
    /\ rows = <<>>
    /\ mpc = "start"
    /\ headers = 0
    /\ subreddits = <<>>
    /\ listing = {}

NextMain ==
    \/ M_OpenSink
    \/ \E sub \in SubredditNames :
         Len(subreddits) < MaxSubreddits /\ M_EnterSubreddit(sub)
    \/ M_Done
    \/ \E ok \in BOOLEAN, lines \in ServedPosts : M_DownloadSubmissions(ok, lines)
    \/ \E ok \in BOOLEAN, lines \in ServedComments : M_DownloadComments(ok, lines)
    \/ M_DecompressSubmissions
    \/ M_DecompressComments
    \/ P_List
    \/ \E filename \in listing : P_Comments(filename)
    \/ \E filename \in listing : P_Submissions(filename)
    \/ \E filename \in listing : P_Other(filename)
    \/ P_Joined
    \/ P_Cleanup
    \/ G_Start
    \/ G_Line
    \/ G_EndOfFile
    \/ G_FinalItem
    \/ G_Return
    \/ J_Drain
    \/ J_Drained
    \/ J_Open
    \/ J_Post
    \/ J_Return

\* G_Resume is no part of NextMain: with batch_size = 1000 (line 31, the
\* default line 112 leaves in place) and files of a few lines the yield of
\* line 48 is never reached, as NoBatchYieldInMain records.
SpecMain == InitMain /\ [][NextMain]_vars

NoBatchYieldInMain == gpc # "flushed"

-----------------------------------------------------------------------------
(* What the claims speak of, stated on the input lines themselves. *)

\* the lines of the comments file, <<>> for a file that does not exist
CommentsFile == IF gpath \in DOMAIN dir THEN dir[gpath] ELSE <<>>

\* a comment the grouper is to keep: link_id and parent_id present,
\* parent_id a direct reply to a post, no marker in the body
Eligible(line) ==
    /\ line.kind = "obj"
    /\ line.f.link_id.t = "str" /\ line.f.link_id.s # <<>>
    /\ line.f.parent_id.t = "str" /\ line.f.parent_id.s # <<>>
    /\ line.f.parent_id.s[1] = "t3_"
    /\ line.f.body.t = "str"
    /\ \A i \in 1..Len(line.f.body.s) :
          line.f.body.s[i] \notin {"[deleted]", "[removed]"}

\* the eligible comments with link_id = key among the first n lines, in
\* file order, as (body, score) with an absent score read as 0
RECURSIVE EligibleFor(_, _, _)
EligibleFor(lines, n, key) ==
    IF n = 0 THEN <<>>
    ELSE LET line == lines[n]
             rest == EligibleFor(lines, n - 1, key)
         IN  IF Eligible(line) /\ line.f.link_id = key
             THEN Append(rest, [body |-> line.f.body,
                                score |-> IF line.f.score.t = "absent"
                                          THEN JInt(0) ELSE line.f.score])
             ELSE rest

\* the concatenation of the batches for key among the first n of a sequence
\* of (link_id, comments) pairs
RECURSIVE BatchesFor(_, _, _)
BatchesFor(pairs, n, key) ==
    IF n = 0 THEN <<>>
    ELSE BatchesFor(pairs, n - 1, key) \o
         (IF pairs[n].k = key THEN pairs[n].v ELSE <<>>)

Keys == {KA, KB, KC, Null}

GeneratorOver == gpc \in {"done", "raised"}

\* C1: once the generator is over, for every key the batches it yielded,
\* concatenated, are exactly the eligible comments of the file with that
\* link_id, each once: nothing lost, nothing twice, nothing else.
C1_Partition ==
    GeneratorOver =>
        \A key \in Keys :
            BatchesFor(yielded, Len(yielded), key)
                = EligibleFor(CommentsFile, Len(CommentsFile), key)

\* (the same, for the runs in which the generator returns)
PartitionWhenReturned ==
    gpc = "done" =>
        \A key \in Keys :
            BatchesFor(yielded, Len(yielded), key)
                = EligibleFor(CommentsFile, Len(CommentsFile), key)

\* the (body, score) an eligible line stands for
AsComment(line) ==
    [body |-> line.f.body,
     score |-> IF line.f.score.t = "absent" THEN JInt(0) ELSE line.f.score]

\* C2: every comment of every batch yielded so far comes from a line read so
\* far that is eligible and has the batch's link_id: none has a marker in its
\* body, lacks link_id or parent_id, or has a parent_id not starting "t3_".
C2_Exclusion ==
    \A b \in 1..Len(yielded) :
        \A j \in 1..Len(yielded[b].v) :
            /\ yielded[b].v[j].body.t = "str"
            /\ \A m \in {"[deleted]", "[removed]"} :
                  \A i \in 1..Len(yielded[b].v[j].body.s) :
                      yielded[b].v[j].body.s[i] # m
            /\ \E i \in 1..gi :
                  /\ Eligible(CommentsFile[i])
                  /\ CommentsFile[i].f.link_id = yielded[b].k
                  /\ AsComment(CommentsFile[i]) = yielded[b].v[j]

\* a run that returned after reading a marked body, a reply to a comment and
\* a line without parent_id, and that yielded a batch
C2_Witness ==
    /\ gpc = "done"
    /\ yielded # <<>>
    /\ \E i \in 1..gi :
          /\ CommentsFile[i].kind = "obj"
          /\ CommentsFile[i].f.body.t = "str"
          /\ "[removed]" \in {CommentsFile[i].f.body.s[n] :
                                n \in 1..Len(CommentsFile[i].f.body.s)}
    /\ \E i \in 1..gi :
          /\ CommentsFile[i].kind = "obj"
          /\ CommentsFile[i].f.parent_id.t \in {"null", "absent"}

\* the posts line the joiner is about to read
NextPost == dir[ppath][pi + 1]

\* a step of the joiner that reads one line of the posts file
ReadsPost == jpc = "posts" /\ pi' = pi + 1

\* the comments the index holds for a post name
IndexedFor(name) ==
    IF \E i \in 1..Len(index) : index[i].k = name
    THEN index[CHOOSE i \in 1..Len(index) : index[i].k = name].v
    ELSE <<>>

NoMarker(text) ==
    /\ text.t = "str"
    /\ \A i \in 1..Len(text.s) : text.s[i] \notin {"[deleted]", "[removed]"}

\* C3: whenever a line of the posts file has been read, the generator has
\* returned, nothing it yielded is left untaken, and the index holds every
\* batch it yielded exactly once.
C3_Sequencing ==
    pi >= 1 =>
        /\ gpc = "done"
        /\ gout = <<>>
        /\ \A key \in Keys :
              IndexedFor(key) = BatchesFor(yielded, Len(yielded), key)

\* a post line read after a generator that yielded twice
C3_Witness == pi >= 1 /\ Len(yielded) >= 2

\* the place of the first comment with the largest score
FirstMax(cs) ==
    CHOOSE i \in 1..Len(cs) :
        /\ \A j \in 1..Len(cs) : cs[j].score.n <= cs[i].score.n
        /\ \A j \in 1..(i - 1) : cs[j].score.n < cs[i].score.n

\* C4: a row written for a post carries the body and score of the first of
\* the post's indexed comments that has the largest score.
C4_TopComment ==
    [][ Len(rows') = Len(rows) + 1 =>
          LET cs == IndexedFor(NextPost.f.name)
              r == rows'[Len(rows')]
          IN  /\ cs # <<>>
              /\ r.top_comment = cs[FirstMax(cs)].body
              /\ r.comment_score = cs[FirstMax(cs)].score ]_vars

\* a row written for a post whose index holds a smaller score first and then
\* the largest score twice, with different bodies
C4_Witness ==
    /\ Len(rows) = 2
    /\ pi = 1
    /\ LET cs == IndexedFor(dir[ppath][1].f.name)
       IN  \E i, j \in 1..Len(cs) :
             /\ 1 < i /\ i < j
             /\ \A n \in 1..Len(cs) : cs[n].score.t = "int"
             /\ cs[1].score.n < cs[i].score.n
             /\ cs[i].score = cs[j].score
             /\ cs[i].body # cs[j].body
             /\ \A n \in 1..Len(cs) : cs[n].score.n <= cs[i].score.n
             /\ rows[2].top_comment = cs[i].body

\* C5: a row is written only with comment_score >= 1, and a post whose
\* indexed comments all have score <= 0 gets no row.
C5_CommentScore ==
    [][ /\ rows' # rows =>
             /\ rows'[Len(rows')].comment_score.t = "int"
             /\ rows'[Len(rows')].comment_score.n >= 1
        /\ ( /\ ReadsPost
             /\ NextPost.kind = "obj"
             /\ \A i \in 1..Len(IndexedFor(NextPost.f.name)) :
                   /\ IndexedFor(NextPost.f.name)[i].score.t = "int"
                   /\ IndexedFor(NextPost.f.name)[i].score.n <= 0 )
           => rows' = rows ]_vars

\* a post that passes the score, index and marker tests was read, its
\* comments all have score <= 0, and no row was written
C5_Witness ==
    /\ pi = 1
    /\ jpc = "done"
    /\ rows = <<EarlierRow>>
    /\ dir[ppath][1].kind = "obj"
    /\ dir[ppath][1].f.score.n >= min_score
    /\ NoMarker(dir[ppath][1].f.title)
    /\ NoMarker(dir[ppath][1].f.selftext)
    /\ IndexedFor(dir[ppath][1].f.name) # <<>>
    /\ \A i \in 1..Len(IndexedFor(dir[ppath][1].f.name)) :
          /\ IndexedFor(dir[ppath][1].f.name)[i].score.t = "int"
          /\ IndexedFor(dir[ppath][1].f.name)[i].score.n <= 0

\* a post that would get a row but for its score: indexed, no marker in
\* title or selftext, integer scores and a comment of score >= 1
OtherwiseQualifies(line) ==
    /\ line.kind = "obj"
    /\ line.f.score.t = "int"
    /\ NoMarker(line.f.title)
    /\ NoMarker(line.f.selftext)
    /\ \A i \in 1..Len(IndexedFor(line.f.name)) :
          IndexedFor(line.f.name)[i].score.t = "int"
    /\ \E i \in 1..Len(IndexedFor(line.f.name)) :
          IndexedFor(line.f.name)[i].score.n >= 1

\* C6: a posts line gets a row only if its score is at least min_score, its
\* name is a key of the index and neither title nor selftext holds a marker;
\* an otherwise qualifying post gets no row at score min_score - 1 and
\* exactly one row at score min_score.
C6_Acceptance ==
    [][ ReadsPost =>
          /\ rows' # rows =>
                /\ NextPost.kind = "obj"
                /\ NextPost.f.score.t = "int"
                /\ NextPost.f.score.n >= min_score
                /\ \E i \in 1..Len(index) : index[i].k = NextPost.f.name
                /\ NoMarker(NextPost.f.title)
                /\ NoMarker(NextPost.f.selftext)
          /\ (OtherwiseQualifies(NextPost) /\ NextPost.f.score.n = min_score - 1)
                => rows' = rows
          /\ (OtherwiseQualifies(NextPost) /\ NextPost.f.score.n = min_score)
                => /\ Len(rows') = Len(rows) + 1
                   /\ SubSeq(rows', 1, Len(rows)) = rows ]_vars

\* with min_score = 1: an otherwise qualifying post of score 1 was read and
\* has its row
C6_Witness ==
    /\ min_score = 1
    /\ pi = 1
    /\ OtherwiseQualifies(dir[ppath][1])
    /\ dir[ppath][1].f.score.n = 1
    /\ Len(rows) = 2

\* C8: a decompression step whose .zst file the download did not write
\* changes nothing and does not raise, so that the loop of main goes on.
C8_FailedDownloadNonFatal ==
    [][ ( \/ /\ mpc = "decompress_submissions"
              /\ (subreddits[1] \o <<"_submissions", ".zst">>) \notin DOMAIN dir
           \/ /\ mpc = "decompress_comments"
              /\ (subreddits[1] \o <<"_comments", ".zst">>) \notin DOMAIN dir )
        => (mpc' # "raised" /\ dir' = dir) ]_vars

\* C9: with no comments file the generator yields nothing and returns; with
\* no posts file the joiner writes no row and does not raise; the rows
\* written earlier stay as they are.
C9_MissingFileDegrades ==
    /\ gpath \notin DOMAIN dir =>
          (yielded = <<>> /\ gpc \in {"created", "done"})
    /\ ppath \notin DOMAIN dir =>
          (rows = <<EarlierRow>> /\ jpc # "raised")

\* (the same, up to the joiner's return, for the runs in which no line of
\* the comments file makes the generator raise)
MissingFileDegradesUnlessRaised ==
    /\ gpath \notin DOMAIN dir =>
          (yielded = <<>> /\ gpc \in {"created", "done"})
    /\ ppath \notin DOMAIN dir =>
          (rows = <<EarlierRow>> /\ (jpc = "raised" => gpc = "raised"))

\* C10: the deletion pass removes every file whose name does not end in
\* ".csv" and leaves merged_data.csv, which is there from the moment the
\* sink is opened.
C10_CleanupScope ==
    /\ [](mpc # "start" => <<"merged_data", ".csv">> \in DOMAIN dir)
    /\ [][ (mpc = "dispatch" /\ mpc' \in {"end", "download_submissions"}) =>
             /\ \A n \in DOMAIN dir :
                   n[Len(n)] # ".csv" => n \notin DOMAIN dir'
             /\ <<"merged_data", ".csv">> \in DOMAIN dir' ]_vars

\* the run has ended after a subreddit gave a row: of the files found at the
\* start and those downloaded and decompressed only the two .csv are left
C10_Witness ==
    /\ mpc = "end"
    /\ Len(rows) >= 1
    /\ DOMAIN dir = {<<"merged_data", ".csv">>, <<"old", ".csv">>}

\* C11: over a whole run the header is written once, at the opening of the
\* sink and before any row; every later step leaves the rows written so far
\* in place and in order, whichever subreddit it works for.
C11_SinkOrdering ==
    /\ [](headers <= 1)
    /\ [](mpc # "start" => headers = 1)
    /\ [](rows # <<>> => headers = 1)
    /\ [][ /\ Len(rows') >= Len(rows)
           /\ SubSeq(rows', 1, Len(rows)) = rows
           /\ headers' # headers => (rows = <<>> /\ rows' = <<>>) ]_vars

\* the run has ended with one header and the rows of two subreddits, the
\* first subreddit's row first
C11_Witness ==
    /\ mpc = "end"
    /\ headers = 1
    /\ Len(rows) = 2
    /\ rows[1].subreddit = "r1"
    /\ rows[2].subreddit = "ask"

\* C12: each batch taken from the generator is put after what the index
\* already holds for its key, so that once the drain is over the index of a
\* key is all its batches in yield order; the comment_score of a row written
\* is the largest score among all eligible comments of the post in the
\* comments file.
C12_Accumulation ==
    /\ [][ (jpc = "drain" /\ gout # <<>> /\ gout' = <<>>) =>
             \A key \in Keys :
                 IndexedFor(key)' =
                     IndexedFor(key) \o (IF gout[1].k = key THEN gout[1].v ELSE <<>>) ]_vars
    /\ [](jpc \in {"open", "posts", "done"} =>
             \A key \in Keys :
                 IndexedFor(key) = BatchesFor(yielded, Len(yielded), key))
    /\ [][ Len(rows') = Len(rows) + 1 =>
             LET all == EligibleFor(CommentsFile, Len(CommentsFile), NextPost.f.name)
                 r == rows'[Len(rows')]
             IN  /\ \A i \in 1..Len(all) :
                       /\ all[i].score.t = "int"
                       /\ all[i].score.n <= r.comment_score.n
                 /\ \E i \in 1..Len(all) : all[i].score = r.comment_score ]_vars

\* a post got its row after its comments came in two batches, the score of
\* the row being larger than every score of the last batch
C12_Witness ==
    /\ jpc = "done"
    /\ Len(rows) = 2
    /\ Len(yielded) = 2
    /\ yielded[1].k = yielded[2].k
    /\ \A j \in 1..Len(yielded[2].v) :
          /\ yielded[2].v[j].score.t = "int"
          /\ yielded[2].v[j].score.n < rows[2].comment_score.n

\* the pending bucket of a key, <<>> for a key the grouper has not met
PendingFor(key) ==
    IF \E i \in 1..Len(gbuckets) : gbuckets[i].k = key
    THEN gbuckets[CHOOSE i \in 1..Len(gbuckets) : gbuckets[i].k = key].v
    ELSE <<>>

\* how many of the first n pairs are batches of key
RECURSIVE CountFor(_, _, _)
CountFor(pairs, n, key) ==
    IF n = 0 THEN 0
    ELSE CountFor(pairs, n - 1, key) + (IF pairs[n].k = key THEN 1 ELSE 0)

\* C13: as soon as the lines read hold batch_size eligible comments of a
\* key, a batch of that key has been yielded (so before the end of the file
\* is met); in the loop at the end of the file a step yields the pending
\* bucket it visits if that bucket is not empty and yields nothing if it is
\* empty, and when the generator returns every key has been visited once:
\* its batches are those of batch_size comments yielded on the way plus one
\* for a non-empty pending bucket.
C13_FlushPoints ==
    /\ [](\A key \in Keys :
             Len(EligibleFor(CommentsFile, gi, key)) >= batch_size =>
                 \E b \in 1..Len(yielded) : yielded[b].k = key)
    /\ [][ (gpc = "final" /\ gpc' = "final") =>
             /\ gbuckets' = gbuckets
             /\ IF gf' # gf /\ gbuckets[gf'].v # <<>>
                THEN /\ yielded' = Append(yielded, gbuckets[gf'])
                     /\ gbuckets[gf'].v = PendingFor(gbuckets[gf'].k)
                ELSE yielded' = yielded ]_vars
    /\ [](gpc = "done" /\ gpath \in DOMAIN dir =>
             \A key \in Keys :
                 LET all == Len(EligibleFor(CommentsFile, Len(CommentsFile), key))
                 IN  /\ Len(PendingFor(key)) = all % batch_size
                     /\ CountFor(yielded, Len(yielded), key) =
                           (all \div batch_size)
                             + (IF PendingFor(key) # <<>> THEN 1 ELSE 0))

\* with batch_size 2 the generator has returned after a key with two
\* eligible comments, yielded on the way and left with an empty pending
\* bucket, and a key with one, yielded at the end of the file
C13_Witness ==
    /\ gpc = "done"
    /\ batch_size = 2
    /\ Len(yielded) = 2
    /\ Len(yielded[1].v) = 2
    /\ PendingFor(yielded[1].k) = <<>>
    /\ yielded[2].k # yielded[1].k
    /\ PendingFor(yielded[2].k) = yielded[2].v
    /\ yielded[2].v # <<>>

\* a comment that passes the tests of link_id and parent_id and is dropped
\* for a marker in its body
TombstoneFiltered(line) ==
    /\ line.kind = "obj"
    /\ line.f.link_id.t = "str" /\ line.f.link_id.s # <<>>
    /\ line.f.parent_id.t = "str" /\ line.f.parent_id.s # <<>>
    /\ line.f.parent_id.s[1] = "t3_"
    /\ line.f.body.t = "str"
    /\ \E i \in 1..Len(line.f.body.s) :
          line.f.body.s[i] \in {"[deleted]", "[removed]"}

\* (C14 as the specification words it: with the positive threshold of the
\* call there is a comments file on which a batch is yielded on a line that
\* is tombstone-filtered)
C14_FlushOnUnchangedBucket ==
    \E f \in SeqsUpTo(GrouperLines, MaxCommentLines) :
        \E i \in 1..Len(f) :
            /\ TombstoneFiltered(f[i])
            /\ GroupLines(f, i, batch_size).out # GroupLines(f, i - 1, batch_size).out

\* what the generator has yielded when it is over is what GroupYields gives
\* for its file
GroupYieldsAgrees ==
    (GeneratorOver /\ gpc # "created") =>
        yielded = GroupYields(CommentsFile, batch_size)

\* C14, amended: with a positive threshold the test of line 47 also runs on
\* a tombstone-filtered comment, but it never yields there: the line changes
\* no bucket and yields nothing, and every batch yielded in the loop over
\* the lines is yielded on a line that appended an eligible comment of the
\* batch's key.
C14_NoFlushOnUnchangedBucket ==
    [][ (gpc = "reading" /\ gi' = gi + 1) =>
          /\ TombstoneFiltered(CommentsFile[gi']) =>
                /\ yielded' = yielded
                /\ gout' = gout
                /\ \A key \in Keys : PendingFor(key)' = PendingFor(key)
                /\ gpc' = "reading"
          /\ yielded' # yielded =>
                /\ Eligible(CommentsFile[gi'])
                /\ CommentsFile[gi'].f.link_id = yielded'[Len(yielded')].k ]_vars

\* a tombstone-filtered comment has just been read while the bucket of its
\* key was one comment short of the threshold, after an earlier batch of
\* that key
C14_Witness ==
    /\ gpc = "reading"
    /\ gi >= 1
    /\ TombstoneFiltered(CommentsFile[gi])
    /\ Len(PendingFor(CommentsFile[gi].f.link_id)) = batch_size - 1
    /\ \E b \in 1..Len(yielded) : yielded[b].k = CommentsFile[gi].f.link_id

\* the names the loop of the dispatcher has visited so far
Visited == DOMAIN dir \ listing

\* C15: when the dispatcher comes to a "_submissions" file before any
\* "_comments" file, no row is written for it and the dispatch goes on (it
\* does not raise); when a "_comments" file came first, the joiner is
\* called with the generator made for that file, not yet started.
C15_DispatchOrdering ==
    [][ \A n \in listing :
          ( /\ mpc = "dispatch"
            /\ listing' = listing \ {n}
            /\ n[Len(n)] = "_submissions" ) =>
              IF \A m \in Visited : m[Len(m)] # "_comments"
              THEN /\ rows' = rows
                   /\ mpc' = "dispatch"
              ELSE /\ jpc' = "drain"
                   /\ ppath' = n
                   /\ gpath \in Visited
                   /\ gpath[Len(gpath)] = "_comments" ]_vars

\* the joiner runs for the second "_submissions" file of one listing
SecondCall ==
    /\ mpc = "joining"
    /\ \E m, n \in Visited :
          m # n /\ m[Len(m)] = "_submissions" /\ n[Len(n)] = "_submissions"

\* C16: a generator the joiner has drained gives nothing more: a joiner
\* called with it for a second "_submissions" file starts with an empty
\* index, keeps it empty and writes no row.
C16_OneShot ==
    /\ [](SecondCall => (index = <<>> /\ gout = <<>> /\ gpc = "done"))
    /\ [][ SecondCall => (rows' = rows /\ yielded' = yielded) ]_vars

\* the second call has returned after reading a post that got its row in the
\* first call, from a generator that had yielded a batch; the sink holds the
\* one row of the first call
C16_Witness ==
    /\ SecondCall
    /\ jpc = "done"
    /\ pi = 1
    /\ yielded # <<>>
    /\ yielded[1].k = dir[ppath][1].f.name
    /\ index = <<>>
    /\ Len(rows) = 1
    /\ rows[1].title = dir[ppath][1].f.title

\* the lines of the posts file, <<>> for a file that does not exist
PostsFile == IF ppath \in DOMAIN dir THEN dir[ppath] ELSE <<>>

\* a file without its lines that are no JSON
Strip(lines) == SelectSeq(lines, LAMBDA l : l.kind # "bad")

\* C17: a comments line that is no JSON changes no bucket and yields
\* nothing, a posts line that is no JSON writes no row and ends nothing; the
\* batches the generator has yielded when it is over, and the rows the call
\* has written when it is over, are those the same files give without
\* their lines that are no JSON.
C17_UnparseableNoOp ==
    /\ [][ (gpc = "reading" /\ gi' = gi + 1 /\ CommentsFile[gi'].kind = "bad") =>
             /\ gbuckets' = gbuckets
             /\ yielded' = yielded
             /\ gout' = gout
             /\ gpc' = gpc ]_vars
    /\ [][ (ReadsPost /\ NextPost.kind = "bad") =>
             (rows' = rows /\ jpc' = jpc) ]_vars
    /\ [](GeneratorOver =>
             yielded = GroupYields(Strip(CommentsFile), batch_size))
    /\ [](jpc \in {"done", "raised"} =>
             rows = <<EarlierRow>> \o
                    JoinRows(Strip(CommentsFile), Strip(PostsFile),
                             batch_size, min_score, label))

\* the call has returned over a comments file that starts with a line that
\* is no JSON and yet gave a batch, and a posts file with a line that is no
\* JSON before a post that got its row
C17_Witness ==
    /\ jpc = "done"
    /\ CommentsFile # <<>>
    /\ CommentsFile[1].kind = "bad"
    /\ yielded # <<>>
    /\ Len(rows) >= 2
    /\ \E i, j \in 1..Len(PostsFile) :
          /\ i < j
          /\ PostsFile[i].kind = "bad"
          /\ PostsFile[j].kind = "obj"
          /\ rows[Len(rows)].title = PostsFile[j].f.title

\* C18: between two lines, and from the end of the file on, every pending
\* bucket holds fewer than batch_size comments; a batch yielded before the
\* end of the file holds exactly batch_size comments, a batch yielded at the
\* end of the file between 1 and batch_size - 1, and no batch is empty.
C18_BucketBound ==
    /\ [](gpc \in {"reading", "final", "done"} =>
             \A i \in 1..Len(gbuckets) : Len(gbuckets[i].v) < batch_size)
    /\ [][ yielded' # yielded =>
             LET batch == yielded'[Len(yielded')].v
             IN  /\ Len(yielded') = Len(yielded) + 1
                 /\ gpc = "reading" => Len(batch) = batch_size
                 /\ gpc = "final" =>
                       (1 <= Len(batch) /\ Len(batch) <= batch_size - 1)
                 /\ gpc \in {"reading", "final"} ]_vars
    /\ [](\A b \in 1..Len(yielded) : yielded[b].v # <<>>)

\* with batch_size 2 the generator has returned after a batch of two
\* comments yielded on the way and a batch of one yielded at the end of the
\* file, both of the same key
C18_Witness ==
    /\ gpc = "done"
    /\ batch_size = 2
    /\ Len(yielded) = 2
    /\ yielded[1].k = yielded[2].k
    /\ Len(yielded[1].v) = 2
    /\ Len(yielded[2].v) = 1

\* the titles of the rows this call has written
RowTitles == [i \in 1..(Len(rows) - 1) |-> rows[i + 1].title]

\* the titles of the post lines read so far whose title is on a row
WrittenLines ==
    LET sel == SelectSeq(SubSeq(PostsFile, 1, pi),
                         LAMBDA l : /\ l.kind = "obj"
                                    /\ \E i \in 1..Len(RowTitles) :
                                          RowTitles[i] = l.f.title)
    IN  [i \in 1..Len(sel) |-> sel[i].f.title]

\* C19: reading one posts line writes at most one row, the row of that
\* line, after the rows already there; so the rows of a call are never more
\* than the lines read, they stand in the order of their lines, and a line
\* that got a row gets one each time it stands in the file.
C19_RowOrder ==
    /\ [](Len(rows) - 1 <= pi)
    /\ [][ ReadsPost =>
             \/ rows' = rows
             \/ /\ Len(rows') = Len(rows) + 1
                /\ SubSeq(rows', 1, Len(rows)) = rows
                /\ NextPost.kind = "obj"
                /\ rows'[Len(rows')].title = NextPost.f.title
                /\ rows'[Len(rows')].content = NextPost.f.selftext
                /\ rows'[Len(rows')].post_score = NextPost.f.score ]_vars
    /\ [][ jpc = "posts" => (rows' = rows \/ pi' = pi + 1) ]_vars
    /\ [](jpc \in {"posts", "done"} => RowTitles = WrittenLines)

\* the call has returned over a posts file of three lines, the first and
\* the last the same post and another post between them, with a row for
\* each in the order of the lines
C19_Witness ==
    /\ jpc = "done"
    /\ pi = 3
    /\ PostsFile[1] = PostsFile[3]
    /\ PostsFile[2] # PostsFile[1]
    /\ Len(rows) = 4
    /\ rows[2] = rows[4]
    /\ rows[3].title = PostsFile[2].f.title
    /\ rows[2].title = PostsFile[1].f.title

\* C7: no line of either file makes the grouper or the joiner raise.
C7_NeverRaises == gpc # "raised" /\ jpc # "raised"

=============================================================================
